---- MODULE Spec2Model ----
(***************************************************************************)
(* The code runner of GitGud (src/code_runner/server.js): an Express        *)
(* server whose POST /execute handler writes the submitted source under a  *)
(* fixed per-language filename in one shared temp directory, runs a shell   *)
(* command on it with child_process.exec, and answers from the completion   *)
(* callback after unlinking the files.                                      *)
(*                                                                         *)
(* Handlers and callbacks run one at a time on the Node event loop, so each *)
(* is one atomic action.  The child processes run concurrently with the     *)
(* server, so every file access of a child is a step of its own.            *)
(***************************************************************************)
EXTENDS Integers, Sequences, FiniteSets, TLC

\* Number of requests the clients send during one run of the server.
MaxReq == 2

\* Requests are numbered in the order in which their handlers run.
Reqs == 1..MaxReq

-----------------------------------------------------------------------------
(* Texts are sequences of characters, so that trimming is computed.        *)

Whitespace == {" ", "\n", "\t", "\r"}

RECURSIVE TrimStart(_)
TrimStart(s) ==
    IF s # <<>> /\ Head(s) \in Whitespace THEN TrimStart(Tail(s)) ELSE s

RECURSIVE TrimEnd(_)
TrimEnd(s) ==
    IF s # <<>> /\ s[Len(s)] \in Whitespace
    THEN TrimEnd(SubSeq(s, 1, Len(s) - 1)) ELSE s

\* Trim as trimStart: trailing whitespace is kept.
TrimLeadingOnly(s) == TrimStart(s)

\* String.prototype.trim
Trim(s) == TrimEnd(TrimStart(s))

TrueText == <<"t", "r", "u", "e">>
FalseText == <<"f", "a", "l", "s", "e">>
UnsupportedText == <<"U", "n", "s", "u", "p", "p", "o", "r", "t", "e", "d", " ",
                     "l", "a", "n", "g", "u", "a", "g", "e">>

-----------------------------------------------------------------------------
(* The request bodies the clients send.                                    *)

Supported == {"python", "c", "c++", "java"}

\* "ruby" stands for every language the switch has no case for.
Languages == Supported \cup {"ruby"}

\* The submitted programs, named by what they do when built and run.
Codes == {"print_true", "print_hello", "syntax_error", "crash", "loop"}

\* A path of the temp directory holds the program the file was made from, or
\* NoCode when there is no such file.
NoCode == "none"
Absent == NoCode

-----------------------------------------------------------------------------
(* The language switch of the handler.                                     *)

\* filename
SourceFile(l) ==
    CASE l = "python" -> "temp.py"
      [] l = "c"      -> "temp.c"
      [] l = "c++"    -> "temp.cpp"
      [] l = "java"   -> "Temp.java"

\* The command has a compile step before "&&".
HasCompileStep(l) == l \in {"c", "c++", "java"}

\* The file the compile step of the command produces and its run step loads.
Artifact(l) ==
    CASE l \in {"c", "c++"} -> "temp_executable"
      [] l = "java"         -> "Temp.class"

\* executable: set for c and c++ only; "" stands for undefined
Executable(l) == IF l \in {"c", "c++"} THEN "temp_executable" ELSE ""

Paths == {"temp.py", "temp.c", "temp.cpp", "Temp.java", "temp_executable",
          "Temp.class"}

-----------------------------------------------------------------------------
(* What the toolchain and the submitted programs do.                       *)

\* g++ / javac accept the source
Compiles(c) == c \notin {"syntax_error", NoCode}

\* the program, once started, exits
Terminates(c) == c # "loop"

ExitCode(c) ==
    CASE c \in {"print_true", "print_hello"} -> 0
      [] c = NoCode -> 127
      [] OTHER -> 1

ProgramStdout(c) ==
    CASE c = "print_true"  -> <<" ", "t", "r", "u", "e", "\n">>
      [] c = "print_hello" -> <<"h", "e", "l", "l", "o", "\n">>
      [] OTHER -> <<>>

\* One diagnostic text for all failures: a program is free to print on its
\* stderr the very text a compiler prints.
ErrText == <<"e", "r", "r", "o", "r", "\n">>
NotFoundText == <<"n", "o", "t", " ", "f", "o", "u", "n", "d", "\n">>

ProgramStderr(c) ==
    CASE c \in {"crash", "syntax_error"} -> ErrText
      [] c = NoCode -> NotFoundText
      [] OTHER -> <<>>

CompilerStderr(c) == IF c = NoCode THEN NotFoundText ELSE ErrText

-----------------------------------------------------------------------------
VARIABLES
    server,     \* "up", or "crashed" after an uncaught exception
    files,      \* the temp directory: path -> what the file holds
    pc,         \* where each request is
    language,   \* req.body.language
    code,       \* req.body.code
    loaded,     \* the source text the compiler or interpreter has read
    ran,        \* the program image the running program was started from
    phase,      \* the step of the command that ended it: "compile" or "run"
    error,      \* exec's error argument: the command exited non-zero
    stdout,     \* exec's stdout argument
    stderr,     \* exec's stderr argument
    status,     \* res.status(...), 0 while unanswered
    body,       \* res.json(...)
    sent        \* how many times res.json was called for the request

vars == <<server, files, pc, language, code, loaded, ran, phase, error,
          stdout, stderr, status, body, sent>>

reqVars == <<language, code>>
childVars == <<loaded, ran, phase, error, stdout, stderr>>
resVars == <<status, body, sent>>

NoBody == [key |-> "", type |-> "", val |-> <<>>]

Init ==
    /\ server = "up"
    /\ files = [p \in Paths |-> Absent]
    /\ pc = [r \in Reqs |-> "new"]
    /\ language = [r \in Reqs |-> ""]
    /\ code = [r \in Reqs |-> NoCode]
    /\ loaded = [r \in Reqs |-> NoCode]
    /\ ran = [r \in Reqs |-> NoCode]
    /\ phase = [r \in Reqs |-> ""]
    /\ error = [r \in Reqs |-> FALSE]
    /\ stdout = [r \in Reqs |-> <<>>]
    /\ stderr = [r \in Reqs |-> <<>>]
    /\ status = [r \in Reqs |-> 0]
    /\ body = [r \in Reqs |-> NoBody]
    /\ sent = [r \in Reqs |-> 0]

-----------------------------------------------------------------------------
(* app.post("/execute"): the handler.                                      *)

\* The handler of request r runs when those of the requests before it have.
Arrives(r) == pc[r] = "new" /\ \A q \in Reqs : q < r => pc[q] # "new"

UnsupportedBody == [key |-> "error", type |-> "string", val |-> UnsupportedText]

\* fs.writeFileSync(filename, code)
WriteSource(fs, l, c) == [fs EXCEPT ![SourceFile(l)] = c]

\* A case of the switch: the source is written and exec starts the command.
HandleSupported(r, l, c) ==
    /\ server = "up"
    /\ Arrives(r)
    /\ l \in Supported
    /\ language' = [language EXCEPT ![r] = l]
    /\ code' = [code EXCEPT ![r] = c]
    /\ files' = WriteSource(files, l, c)
    /\ pc' = [pc EXCEPT ![r] = "spawned"]
    /\ UNCHANGED <<server, childVars, resVars>>

\* HandleUnsupported with the source written before the language is looked
\* at: what the handler would do if the write stood above the switch.
HandleUnsupportedAfterWrite(r, l, c) ==
    /\ server = "up"
    /\ Arrives(r)
    /\ l \notin Supported
    /\ language' = [language EXCEPT ![r] = l]
    /\ code' = [code EXCEPT ![r] = c]
    /\ files' = [files EXCEPT !["temp.py"] = c]
    /\ status' = [status EXCEPT ![r] = 400]
    /\ body' = [body EXCEPT ![r] = UnsupportedBody]
    /\ sent' = [sent EXCEPT ![r] = @ + 1]
    /\ pc' = [pc EXCEPT ![r] = "answered"]
    /\ UNCHANGED <<server, childVars>>

\* The default of the switch: the handler returns before exec.
HandleUnsupported(r, l, c) ==
    /\ server = "up"
    /\ Arrives(r)
    /\ l \notin Supported
    /\ language' = [language EXCEPT ![r] = l]
    /\ code' = [code EXCEPT ![r] = c]
    /\ status' = [status EXCEPT ![r] = 400]
    /\ body' = [body EXCEPT ![r] = UnsupportedBody]
    /\ sent' = [sent EXCEPT ![r] = @ + 1]
    /\ pc' = [pc EXCEPT ![r] = "answered"]
    /\ UNCHANGED <<server, files, childVars>>

-----------------------------------------------------------------------------
(* The shell command exec runs, as the steps at which it touches the temp  *)
(* directory.  The child runs whether or not the server is still up.       *)

\* The first step opens the source: python3 to interpret it, g++ or javac
\* to compile it.
ChildReadSource(r) ==
    /\ pc[r] = "spawned"
    /\ LET src == files[SourceFile(language[r])] IN
        /\ loaded' = [loaded EXCEPT ![r] = src]
        /\ IF HasCompileStep(language[r])
           THEN /\ pc' = [pc EXCEPT ![r] = "compiling"]
                /\ ran' = ran
           ELSE /\ pc' = [pc EXCEPT ![r] = "running"]
                /\ ran' = [ran EXCEPT ![r] = src]
    /\ UNCHANGED <<server, files, reqVars, phase, error, stdout, stderr,
                   resVars>>

\* ChildCompileEnd with ";" in the place of "&&": the run step is started
\* also after a failed compile step, on whatever the artifact path holds.
ChildCompileEndThenAlwaysRun(r) ==
    /\ pc[r] = "compiling"
    /\ files' = IF Compiles(loaded[r])
                THEN [files EXCEPT ![Artifact(language[r])] = loaded[r]]
                ELSE files
    /\ pc' = [pc EXCEPT ![r] = "compiled"]
    /\ loaded' = [loaded EXCEPT ![r] = NoCode]
    /\ UNCHANGED <<server, reqVars, ran, phase, error, stdout, stderr, resVars>>

\* The compile step ends: on failure "&&" ends the command, on success the
\* artifact is on disk.
ChildCompileEnd(r) ==
    /\ pc[r] = "compiling"
    /\ IF Compiles(loaded[r])
       THEN /\ files' = [files EXCEPT ![Artifact(language[r])] = loaded[r]]
            /\ pc' = [pc EXCEPT ![r] = "compiled"]
            /\ UNCHANGED <<phase, error, stdout, stderr>>
       ELSE /\ pc' = [pc EXCEPT ![r] = "exited"]
            /\ phase' = [phase EXCEPT ![r] = "compile"]
            /\ error' = [error EXCEPT ![r] = TRUE]
            /\ stdout' = [stdout EXCEPT ![r] = <<>>]
            /\ stderr' = [stderr EXCEPT ![r] = CompilerStderr(loaded[r])]
            /\ files' = files
    /\ loaded' = [loaded EXCEPT ![r] = NoCode]
    /\ UNCHANGED <<server, reqVars, ran, resVars>>

\* The run step after "&&" loads whatever the artifact path holds now.
ChildRunStart(r) ==
    /\ pc[r] = "compiled"
    /\ ran' = [ran EXCEPT ![r] = files[Artifact(language[r])]]
    /\ pc' = [pc EXCEPT ![r] = "running"]
    /\ UNCHANGED <<server, files, reqVars, loaded, phase, error, stdout,
                   stderr, resVars>>

\* The program exits and with it the command.  exec is called without a
\* timeout option: a program that does not exit is waited for.
ChildExit(r) ==
    /\ pc[r] = "running"
    /\ Terminates(ran[r])
    /\ pc' = [pc EXCEPT ![r] = "exited"]
    /\ phase' = [phase EXCEPT ![r] = "run"]
    /\ error' = [error EXCEPT ![r] = ExitCode(ran[r]) # 0]
    /\ stdout' = [stdout EXCEPT ![r] = ProgramStdout(ran[r])]
    /\ stderr' = [stderr EXCEPT ![r] = ProgramStderr(ran[r])]
    /\ loaded' = [loaded EXCEPT ![r] = NoCode]
    /\ ran' = [ran EXCEPT ![r] = NoCode]
    /\ UNCHANGED <<server, files, reqVars, resVars>>

-----------------------------------------------------------------------------
(* The callback of exec.                                                   *)

\* fs.unlinkSync(filename) throws ENOENT when the file is not there
UnlinkThrows(fs, l) == fs[SourceFile(l)] = Absent

\* Cleanup with the second line left out: the executable stays.
CleanupSourceOnly(fs, l) ==
    [p \in Paths |-> IF p = SourceFile(l) THEN Absent ELSE fs[p]]

\* fs.unlinkSync(filename);
\* if (executable && fs.existsSync(executable)) fs.unlinkSync(executable);
Cleanup(fs, l) ==
    [p \in Paths |->
        IF p = SourceFile(l) \/ p = Executable(l) THEN Absent ELSE fs[p]]

\* Result without the trim: stdout compared as the program wrote it.
ResultUntrimmed(out) == out = TrueText

\* const result = stdout.trim() === "true"
Result(out) == Trim(out) = TrueText

\* ResponseStatus with the error branch lost: every callback answers 200.
ResponseStatusAlways200(err) == 200

\* if (error) return res.status(500).json(stderr); res.status(200).json(...)
ResponseStatus(err) == IF err THEN 500 ELSE 200

ResponseBody(err, out, errOut) ==
    IF err
    THEN [key |-> "", type |-> "string", val |-> errOut]
    ELSE [key |-> "output", type |-> "boolean",
          val |-> IF Result(out) THEN TrueText ELSE FalseText]

\* ExecCallback with the response sent and the two unlinks left out.
ExecCallbackWithoutCleanup(r) ==
    /\ server = "up"
    /\ pc[r] = "exited"
    /\ status' = [status EXCEPT ![r] = ResponseStatus(error[r])]
    /\ body' = [body EXCEPT ![r] = ResponseBody(error[r], stdout[r], stderr[r])]
    /\ sent' = [sent EXCEPT ![r] = @ + 1]
    /\ pc' = [pc EXCEPT ![r] = "answered"]
    /\ UNCHANGED <<server, files, reqVars, childVars>>

\* ExecCallback with the return of the error branch left out: after
\* res.status(500).json(stderr) the callback goes on to res.status(200).json.
ExecCallbackWithoutReturn(r) ==
    /\ server = "up"
    /\ pc[r] = "exited"
    /\ ~UnlinkThrows(files, language[r])
    /\ files' = Cleanup(files, language[r])
    /\ status' = [status EXCEPT ![r] = ResponseStatus(error[r])]
    /\ body' = [body EXCEPT ![r] = ResponseBody(error[r], stdout[r], stderr[r])]
    /\ sent' = [sent EXCEPT ![r] = @ + (IF error[r] THEN 2 ELSE 1)]
    /\ pc' = [pc EXCEPT ![r] = "answered"]
    /\ UNCHANGED <<server, reqVars, childVars>>

\* The callback cleans up and answers.
ExecCallback(r) ==
    /\ server = "up"
    /\ pc[r] = "exited"
    /\ ~UnlinkThrows(files, language[r])
    /\ files' = Cleanup(files, language[r])
    /\ status' = [status EXCEPT ![r] = ResponseStatus(error[r])]
    /\ body' = [body EXCEPT ![r] = ResponseBody(error[r], stdout[r], stderr[r])]
    /\ sent' = [sent EXCEPT ![r] = @ + 1]
    /\ pc' = [pc EXCEPT ![r] = "answered"]
    /\ UNCHANGED <<server, reqVars, childVars>>

\* The first unlinkSync throws inside the callback, where nothing catches
\* it: the process dies with every request still in flight unanswered.
ExecCallbackThrows(r) ==
    /\ server = "up"
    /\ pc[r] = "exited"
    /\ UnlinkThrows(files, language[r])
    /\ server' = "crashed"
    /\ UNCHANGED <<files, pc, reqVars, childVars, resVars>>

-----------------------------------------------------------------------------
Next ==
    \/ \E r \in Reqs, l \in Languages, c \in Codes : HandleSupported(r, l, c)
    \/ \E r \in Reqs, l \in Languages, c \in Codes : HandleUnsupported(r, l, c)
    \/ \E r \in Reqs : ChildReadSource(r)
    \/ \E r \in Reqs : ChildCompileEnd(r)
    \/ \E r \in Reqs : ChildRunStart(r)
    \/ \E r \in Reqs : ChildExit(r)
    \/ \E r \in Reqs : ExecCallback(r)
    \/ \E r \in Reqs : ExecCallbackThrows(r)

Spec == Init /\ [][Next]_vars

-----------------------------------------------------------------------------
(* Vocabulary of the properties.                                           *)

\* The request was accepted and has no response yet.
InFlight(r) == pc[r] \in {"spawned", "compiling", "compiled", "running", "exited"}

\* The command of the request has not exited.
ChildAlive(r) == pc[r] \in {"spawned", "compiling", "compiled", "running"}

Answered(r) == pc[r] = "answered"

\* The request was answered from the callback of exec.
Executed(r) == Answered(r) /\ language[r] \in Supported

\* The compiler or interpreter of the request holds the source it has read.
HasReadSource(r) ==
    \/ pc[r] = "compiling"
    \/ pc[r] = "running" /\ ~HasCompileStep(language[r])

Response(r) == <<status[r], body[r]>>

-----------------------------------------------------------------------------
(* C1: the source that a request's compile/run command reads is the code   *)
(* that request submitted, also while another request of the same language *)
(* is in flight.                                                           *)
C1_ReadsOwnSource ==
    \A r \in Reqs : HasReadSource(r) => loaded[r] = code[r]

-----------------------------------------------------------------------------
(* C2: once the response of a request that passed validation is returned,  *)
(* no file made for it is left.  Every file of the temp directory is made  *)
(* for some such request, so when every request that has arrived is        *)
(* answered the directory is empty.                                        *)
Quiet == \A r \in Reqs : pc[r] \in {"new", "answered"}

C2_NothingLeftBehind ==
    Quiet => \A p \in Paths : files[p] = Absent

-----------------------------------------------------------------------------
(* C3: handling a request of a language outside the supported set answers  *)
(* 400 { error: "Unsupported language" }, writes no file, starts no child  *)
(* and changes nothing of any other request.                               *)
C3_UnsupportedRejected ==
    [][\A r \in Reqs :
         (pc[r] = "new" /\ pc'[r] # "new"
            /\ language'[r] \notin {"python", "c", "c++", "java"})
         => /\ pc'[r] = "answered"
            /\ status'[r] = 400
            /\ body'[r] = [key |-> "error", type |-> "string",
                           val |-> UnsupportedText]
            /\ files' = files
            /\ server' = server
            /\ <<loaded'[r], ran'[r], phase'[r]>> = <<loaded[r], ran[r], phase[r]>>
            /\ \A q \in Reqs \ {r} :
                 /\ <<pc'[q], language'[q], code'[q]>> = <<pc[q], language[q], code[q]>>
                 /\ <<loaded'[q], ran'[q], phase'[q]>> = <<loaded[q], ran[q], phase[q]>>
                 /\ <<error'[q], stdout'[q], stderr'[q]>> = <<error[q], stdout[q], stderr[q]>>
                 /\ Response(q)' = Response(q)
      ]_vars

\* A "ruby" request was answered 400 while an earlier request is in flight
\* with its source on disk.
C3_Witness ==
    \E r, q \in Reqs :
        /\ language[r] = "ruby" /\ Answered(r) /\ status[r] = 400
        /\ InFlight(q) /\ files[SourceFile(language[q])] # Absent

-----------------------------------------------------------------------------
(* C4: an accepted request is answered even when its program never         *)
(* terminates: the child is ended at the wall-clock limit and the request  *)
(* answered.  No step of another request changes where a request is or     *)
(* what its child runs, so a request that is in flight on a running server *)
(* with no step of its own enabled is never answered.                      *)
Progress(r) ==
    \/ ChildReadSource(r)
    \/ ChildCompileEnd(r)
    \/ ChildRunStart(r)
    \/ ChildExit(r)
    \/ ExecCallback(r)
    \/ ExecCallbackThrows(r)

C4_NeverWaitsForever ==
    \A r \in Reqs : (server = "up" /\ InFlight(r)) => ENABLED Progress(r)

-----------------------------------------------------------------------------
(* C5: at most N requests have a running child, N the size of the pool;    *)
(* a further request starts no child while N are running.  N is taken one  *)
(* less than the number of requests, the largest pool they can overfill.   *)
PoolSize == MaxReq - 1

C5_PoolBound ==
    Cardinality({r \in Reqs : ChildAlive(r)}) <= PoolSize

-----------------------------------------------------------------------------
(* C6: the response of a request is a function of its own language and     *)
(* code: it is the response the request gets when it is the only one the   *)
(* server handles.                                                         *)
SoloCompileFails(l, c) == HasCompileStep(l) /\ ~Compiles(c)

SoloResponse(l, c) ==
    IF SoloCompileFails(l, c)
    THEN <<ResponseStatus(TRUE), ResponseBody(TRUE, <<>>, CompilerStderr(c))>>
    ELSE <<ResponseStatus(ExitCode(c) # 0),
           ResponseBody(ExitCode(c) # 0, ProgramStdout(c), ProgramStderr(c))>>

C6_InterleavingIndependent ==
    \A r \in Reqs :
        Executed(r) => Response(r) = SoloResponse(language[r], code[r])

-----------------------------------------------------------------------------
(* C7: a command that failed in its compile step and a command that failed *)
(* in its run step are answered with distinct verdicts.                    *)
C7_PhasesDistinguished ==
    \A a, b \in Reqs :
        (/\ Executed(a) /\ phase[a] = "compile"
         /\ Executed(b) /\ phase[b] = "run" /\ error[b])
        => Response(a) # Response(b)

-----------------------------------------------------------------------------
-----------------------------------------------------------------------------
(* C9: when the program exits with status 0 after writing T to stdout, the *)
(* payload of the response is T with its surrounding whitespace trimmed.   *)
C9_StdoutVerbatim ==
    \A r \in Reqs :
        (Executed(r) /\ ~error[r]) => body[r].val = Trim(stdout[r])

\* C9 as amended: when the command exits with status 0 after writing T to
\* stdout, the payload is the boolean telling whether T with its
\* surrounding whitespace trimmed is the text "true".
C9_PayloadIsVerdict ==
    \A r \in Reqs :
        (Executed(r) /\ ~error[r]) =>
            /\ body[r].type = "boolean"
            /\ (body[r].val = TrueText) = (Trim(stdout[r]) = TrueText)
            /\ (body[r].val = FalseText) = (Trim(stdout[r]) # TrueText)

\* One program wrote "true" inside whitespace and got true, another wrote
\* a different text and got false.
C9_Witness ==
    \E r, q \in Reqs :
        /\ Executed(r) /\ ~error[r]
        /\ stdout[r] # TrueText /\ Trim(stdout[r]) = TrueText
        /\ body[r].val = TrueText
        /\ Executed(q) /\ ~error[q]
        /\ Trim(stdout[q]) \notin {TrueText, <<>>}
        /\ body[q].val = FalseText

-----------------------------------------------------------------------------
(* C10: the cleanup of a request never raises, also when its files are     *)
(* already gone: the server stays running.                                 *)
C10_CleanupNeverRaises == server = "up"

-----------------------------------------------------------------------------
(* C11: the paths written or deleted by any two requests in flight are     *)
(* disjoint, whatever their two languages.                                 *)

\* The paths a request of language l writes or deletes: its source, what its
\* compile step produces and what its callback unlinks.
TouchedPaths(l) ==
    {SourceFile(l)}
        \cup (IF HasCompileStep(l) THEN {Artifact(l)} ELSE {})
        \cup (IF Executable(l) # "" THEN {Executable(l)} ELSE {})

C11_DisjointPaths ==
    \A a, b \in Reqs :
        (a # b /\ InFlight(a) /\ InFlight(b))
        => TouchedPaths(language[a]) \cap TouchedPaths(language[b]) = {}

-----------------------------------------------------------------------------
(* C12: for a language with a compile step, the run step of a request is   *)
(* started only after that request's compile step exited with status 0;    *)
(* after a failed compile step no run step of the request is ever started  *)
(* and the response the request gets is the compile error.                 *)
C12_RunOnlyAfterCompile ==
    [][\A r \in Reqs :
         /\ (HasCompileStep(language[r]) /\ pc[r] # "running" /\ pc'[r] = "running")
            => pc[r] = "compiled"
         /\ (pc[r] # "compiled" /\ pc'[r] = "compiled")
            => (pc[r] = "compiling" /\ Compiles(loaded[r]))
         /\ (pc[r] = "compiling" /\ pc'[r] # "compiling" /\ ~Compiles(loaded[r]))
            => /\ pc'[r] = "exited"
               /\ phase'[r] = "compile"
               /\ error'[r]
               /\ stderr'[r] = CompilerStderr(loaded[r])
         /\ phase[r] = "compile"
            => /\ phase'[r] = "compile"
               /\ pc'[r] \in {"exited", "answered"}
               /\ ran'[r] = NoCode
         /\ (phase[r] = "compile" /\ pc[r] = "exited" /\ pc'[r] = "answered")
            => /\ status'[r] = 500
               /\ body'[r].val = stderr[r]
      ]_vars

\* One request was answered with the error of its failed compile step while
\* the run step of another, compiled, request is under way.
C12_Witness ==
    \E r, q \in Reqs :
        /\ HasCompileStep(language[r]) /\ Answered(r) /\ phase[r] = "compile"
        /\ status[r] = 500 /\ body[r].val = ErrText
        /\ HasCompileStep(language[q]) /\ pc[q] = "running"

-----------------------------------------------------------------------------
(* C13: within one request the steps come in the order source written,     *)
(* command started, command finished, cleanup performed, response sent; a  *)
(* 200 or 500 response is never sent before the cleanup of the request.    *)

\* The steps of a request, each with the step that may follow it.
StepOrder ==
    { <<"new", "spawned">>, <<"new", "answered">>,
      <<"spawned", "compiling">>, <<"spawned", "running">>,
      <<"compiling", "compiled">>, <<"compiling", "exited">>,
      <<"compiled", "running">>, <<"running", "exited">>,
      <<"exited", "answered">> }

C13_StepsInOrder ==
    [][\A r \in Reqs :
         /\ pc'[r] # pc[r] => <<pc[r], pc'[r]>> \in StepOrder
         /\ (pc[r] = "new" /\ pc'[r] = "spawned")
            => files'[SourceFile(language'[r])] = code'[r]
         /\ (status[r] = 0 /\ status'[r] \in {200, 500})
            => /\ pc[r] = "exited"
               /\ phase[r] \in {"compile", "run"}
               /\ files[SourceFile(language[r])] # Absent
               /\ files'[SourceFile(language[r])] = Absent
               /\ language[r] \in {"c", "c++"}
                    => files'["temp_executable"] = Absent
         /\ status[r] # 0 => status'[r] = status[r]
      ]_vars

\* A c request was answered 200 and its source and executable, which its
\* command produced, are gone.
C13_Witness ==
    \E r \in Reqs :
        /\ language[r] = "c" /\ Answered(r) /\ status[r] = 200 /\ phase[r] = "run"
        /\ files["temp.c"] = Absent /\ files["temp_executable"] = Absent

-----------------------------------------------------------------------------
(* The callback on a command that exited with status 0, for the texts a    *)
(* program may have written to stdout.                                     *)

\* Whitespace characters on each side of the text a program prints.
MaxPad == 1

Pads == UNION {[1..n -> Whitespace] : n \in 0..MaxPad}

PrintedTexts ==
    { TrueText,
      <<"T", "r", "u", "e">>,
      <<"t", "r", "u", "e", " ", "f", "a", "l", "s", "e">>,
      <<"t", "r", "u">>,
      <<"h", "e", "l", "l", "o">>,
      <<>> }

StdoutSamples == {p \o t \o q : p \in Pads, t \in PrintedTexts, q \in Pads}

\* The first request's command has run a program that printed a text and
\* exited with status 0; its callback has not run yet.
OutputInit ==
    \E l \in Supported, out \in StdoutSamples :
        /\ server = "up"
        /\ files = [p \in Paths |->
                      IF p \in {SourceFile(l)}
                                 \cup (IF HasCompileStep(l) THEN {Artifact(l)} ELSE {})
                      THEN "print_sample" ELSE Absent]
        /\ pc = [r \in Reqs |-> IF r = 1 THEN "exited" ELSE "new"]
        /\ language = [r \in Reqs |-> IF r = 1 THEN l ELSE ""]
        /\ code = [r \in Reqs |-> IF r = 1 THEN "print_sample" ELSE NoCode]
        /\ loaded = [r \in Reqs |-> NoCode]
        /\ ran = [r \in Reqs |-> NoCode]
        /\ phase = [r \in Reqs |-> IF r = 1 THEN "run" ELSE ""]
        /\ error = [r \in Reqs |-> FALSE]
        /\ stdout = [r \in Reqs |-> IF r = 1 THEN out ELSE <<>>]
        /\ stderr = [r \in Reqs |-> <<>>]
        /\ status = [r \in Reqs |-> 0]
        /\ body = [r \in Reqs |-> NoBody]
        /\ sent = [r \in Reqs |-> 0]

OutputNext == \E r \in Reqs : ExecCallback(r)

OutputSpec == OutputInit /\ [][OutputNext]_vars

-----------------------------------------------------------------------------
(* C14: when the command exits with status 0 the response is status 200    *)
(* with body { output: b }, b true exactly when stdout is the text "true"  *)
(* with nothing but whitespace before and after it, and false for every    *)
(* other stdout, "True", "true false" and the empty output among them.     *)

\* s is "true" between a whitespace prefix and a whitespace suffix
IsPaddedTrue(s) ==
    \E i \in 0..Len(s) :
        /\ i + 4 <= Len(s)
        /\ SubSeq(s, i + 1, i + 4) = <<"t", "r", "u", "e">>
        /\ \A k \in (1..i) \cup ((i + 5)..Len(s)) : s[k] \in {" ", "\n", "\t", "\r"}

C14_OutputIsTrueTest ==
    \A r \in Reqs :
        (Answered(r) /\ phase[r] = "run" /\ ~error[r]) =>
            /\ status[r] = 200
            /\ body[r].key = "output"
            /\ body[r].type = "boolean"
            /\ body[r].val = IF IsPaddedTrue(stdout[r]) THEN TrueText ELSE FalseText
            /\ stdout[r] \in { <<"T", "r", "u", "e">>,
                               <<"t", "r", "u", "e", " ", "f", "a", "l", "s", "e">>,
                               <<>> }
                 => body[r].val = FalseText

\* A program that printed "true" followed by a newline was answered true.
C14_Witness ==
    \E r \in Reqs :
        /\ Answered(r) /\ status[r] = 200
        /\ stdout[r] = <<"t", "r", "u", "e", "\n">>
        /\ body[r] = [key |-> "output", type |-> "boolean", val |-> TrueText]

-----------------------------------------------------------------------------
(* C15: a request receives at most one response, on every interleaving of  *)
(* handlers and callbacks, and its status is 400 (unsupported language,    *)
(* sent by the handler, no child started), 500 (the command reported an    *)
(* error) or 200 (the command succeeded).                                  *)
C15_OneResponse ==
    \A r \in Reqs :
        /\ sent[r] <= 1
        /\ (sent[r] = 1) = (status[r] # 0)
        /\ (sent[r] = 1) = Answered(r)
        /\ status[r] \in {0, 400, 500, 200}
        /\ status[r] = 400 =>
              /\ language[r] \notin {"python", "c", "c++", "java"}
              /\ phase[r] = "" /\ loaded[r] = NoCode /\ ran[r] = NoCode
        /\ status[r] = 500 =>
              /\ language[r] \in {"python", "c", "c++", "java"}
              /\ phase[r] \in {"compile", "run"} /\ error[r]
        /\ status[r] = 200 =>
              /\ language[r] \in {"python", "c", "c++", "java"}
              /\ phase[r] = "run" /\ ~error[r]

\* Two overlapping requests were each answered once, one 500 and one 200.
C15_Witness ==
    \E r, q \in Reqs :
        /\ status[r] = 500 /\ sent[r] = 1
        /\ status[q] = 200 /\ sent[q] = 1

-----------------------------------------------------------------------------
(* The server when requests do not overlap: a handler runs only when every *)
(* request before it has been answered.  The callback then always finds    *)
(* the source its handler wrote, so its unlink does not throw.             *)

NoneInFlight == \A q \in Reqs : ~InFlight(q)

SeqNext ==
    \/ \E r \in Reqs, l \in Languages, c \in Codes :
          NoneInFlight /\ HandleSupported(r, l, c)
    \/ \E r \in Reqs, l \in Languages, c \in Codes :
          NoneInFlight /\ HandleUnsupported(r, l, c)
    \/ \E r \in Reqs : ChildReadSource(r)
    \/ \E r \in Reqs : ChildCompileEnd(r)
    \/ \E r \in Reqs : ChildRunStart(r)
    \/ \E r \in Reqs : ChildExit(r)
    \/ \E r \in Reqs : ExecCallback(r)

SeqSpec == Init /\ [][SeqNext]_vars

-----------------------------------------------------------------------------
(* C16: when requests do not overlap, after a python, c or c++ request is  *)
(* answered, whether its command succeeded or failed, the temp directory   *)
(* holds neither the source file of that request nor a compiled            *)
(* executable; and the callback of a request never finds its source gone.  *)
C16_SequentialCleanup ==
    \A r \in Reqs :
        /\ pc[r] = "exited" => ~UnlinkThrows(files, language[r])
        /\ (/\ Answered(r) /\ language[r] \in {"python", "c", "c++"}
            /\ \A q \in Reqs : q > r => pc[q] = "new")
           => /\ files[SourceFile(language[r])] = Absent
              /\ files["temp_executable"] = Absent

\* A c request whose program failed was answered after an earlier c++
\* request whose program succeeded, and neither left a file.
C16_Witness ==
    \E q, r \in Reqs :
        /\ q < r
        /\ language[q] = "c++" /\ Answered(q) /\ status[q] = 200
        /\ language[r] = "c" /\ Answered(r) /\ status[r] = 500 /\ phase[r] = "run"
        /\ \A p \in Paths : files[p] = Absent

====
